---- MODULE Spec2Model ----
(***************************************************************************)
(* Model of src/main.py: a flat top-level script that reads example.jpg,   *)
(* computes an aspect-ratio height it never uses, resizes the image to     *)
(* width 600 keeping its height, reads squirrel.jpg, shows the resized     *)
(* image in the window "Resized" and blocks in cv2.waitKey(0).             *)
(*                                                                         *)
(* The program counter pc names the statement about to run.  The           *)
(* environment (what the two files decode to, whether a display exists) is *)
(* fixed in the initial state; key presses are environment events.         *)
(***************************************************************************)
EXTENDS Integers, Sequences, FiniteSets, TLC

\* ---------------------------------------------------------------- bounds
MaxH == 2
MaxW == 2
MaxKeys == 2

\* Image heights and widths the files may decode to.  400 and 800 are the
\* dimensions of the 400x800 scenario; 600 makes the resize a no-op width.
Heights == (1..MaxH) \cup {400}
Widths == (1..MaxW) \cup {600, 800}

\* ------------------------------------------------------- program constants
\* The literal 600 of line 13 (aspect ratio) and of line 14 (dsize width).
AspectWidth == 600
TargetWidth == 600

Paths == {"example.jpg", "squirrel.jpg"}

\* A file that is absent or does not decode.
Missing == <<>>

\* Python's None, as cv2.imread returns it; kept record-shaped so that it
\* compares with pixel buffers.
None == [src |-> "None", resized |-> FALSE, shape |-> <<>>]

NoWindow == [title |-> "", image |-> None]

\* The statements of the script, in textual order (lines 12,13,14,17,20,21).
ProgramOrder ==
  <<"imread_input", "newHeight", "resize", "imread_overlay", "imshow", "waitKey">>

Terminated == {"done", "error"}

VARIABLES
  files,        \* path -> Missing or <<height, width>> of the encoded image
  display,      \* TRUE iff a windowing surface is available
  pc,           \* statement about to run, or "done" / "error"
  input,        \* the variable input
  newHeight,    \* the variable newHeight, a rational <<num, den>>
  overlay,      \* the variable overlay
  dsize,        \* the dsize argument of the last cv2.resize call
  window,       \* the HighGUI window, NoWindow while none is shown
  keysPressed,  \* key events delivered to the window
  keysRead,     \* key events consumed by cv2.waitKey
  error,        \* "none" or the exception that ended the run
  errorAt,      \* the statement that raised it
  trace,        \* statements executed so far, in order
  testWidth     \* target width of a Resizer call under test

vars == <<files, display, pc, input, newHeight, overlay, dsize, window,
          keysPressed, keysRead, error, errorAt, trace, testWidth>>

\* ------------------------------------------------------------- operators

\* cv2.imread(path): a (H, W, 3) buffer, or None when the file does not
\* decode -- it never raises.
imread(path) ==
  IF files[path] = Missing
    THEN None
    ELSE [src |-> path, resized |-> FALSE,
          shape |-> <<files[path][1], files[path][2], 3>>]

\* input.shape[0] * (600 / input.shape[1]) as an exact rational.
AspectHeight(buf) == <<buf.shape[1] * AspectWidth, buf.shape[2]>>

\* Mutant of cv2_resize: no check of the requested size.
cv2_resizeNoSizeCheck(src, size) ==
  IF src = None
    THEN [ok |-> FALSE, value |-> None]
    ELSE [ok |-> TRUE,
          value |-> [src |-> src.src, resized |-> TRUE,
                     shape |-> <<size[2], size[1], src.shape[3]>>]]

\* cv2.resize(src, dsize) with dsize = (width, height): the result has
\* shape (height, width, channels); an empty source or an empty dsize
\* raises cv2.error.
cv2_resize(src, size) ==
  IF src = None \/ size[1] <= 0 \/ size[2] <= 0
    THEN [ok |-> FALSE, value |-> None]
    ELSE [ok |-> TRUE,
          value |-> [src |-> src.src, resized |-> TRUE,
                     shape |-> <<size[2], size[1], src.shape[3]>>]]

Executed(step) == \E i \in DOMAIN trace : trace[i] = step

\* ------------------------------------------------------------------ Init
Init ==
  /\ files \in [Paths -> {Missing} \cup (Heights \X Widths)]
  /\ display \in BOOLEAN
  /\ pc = "imread_input"
  /\ input = None
  /\ newHeight = <<0, 1>>
  /\ overlay = None
  /\ dsize = <<>>
  /\ window = NoWindow
  /\ keysPressed = 0
  /\ keysRead = 0
  /\ error = "none"
  /\ errorAt = "none"
  /\ trace = <<>>
  /\ testWidth = 0

\* --------------------------------------------------------------- actions

\* line 12: input = cv2.imread('example.jpg')
ImreadInput ==
  /\ pc = "imread_input"
  /\ input' = imread("example.jpg")
  /\ pc' = "newHeight"
  /\ trace' = Append(trace, "imread_input")
  /\ UNCHANGED <<files, display, newHeight, overlay, dsize, window,
                 keysPressed, keysRead, error, errorAt, testWidth>>

\* Mutant of NewHeight: the script jumps over the resize statement.
NewHeightSkipsResize ==
  /\ pc = "newHeight"
  /\ trace' = Append(trace, "newHeight")
  /\ IF input = None
       THEN /\ error' = "AttributeError"
            /\ errorAt' = "newHeight"
            /\ pc' = "error"
            /\ UNCHANGED newHeight
       ELSE /\ newHeight' = AspectHeight(input)
            /\ pc' = "imread_overlay"
            /\ UNCHANGED <<error, errorAt>>
  /\ UNCHANGED <<files, display, input, overlay, dsize, window,
                 keysPressed, keysRead, testWidth>>

\* line 13: newHeight = input.shape[0] * (600 / input.shape[1])
\* None has no attribute shape: AttributeError ends the script.
NewHeight ==
  /\ pc = "newHeight"
  /\ trace' = Append(trace, "newHeight")
  /\ IF input = None
       THEN /\ error' = "AttributeError"
            /\ errorAt' = "newHeight"
            /\ pc' = "error"
            /\ UNCHANGED newHeight
       ELSE /\ newHeight' = AspectHeight(input)
            /\ pc' = "resize"
            /\ UNCHANGED <<error, errorAt>>
  /\ UNCHANGED <<files, display, input, overlay, dsize, window,
                 keysPressed, keysRead, testWidth>>

\* Mutant of Resize: the aspect-ratio height newHeight is passed as the
\* dsize height (what the script seems to have meant).
ResizeToNewHeight ==
  /\ pc = "resize"
  /\ trace' = Append(trace, "resize")
  /\ LET size == <<TargetWidth, newHeight[1] \div newHeight[2]>>
         r == cv2_resize(input, size)
     IN /\ dsize' = size
        /\ IF r.ok
             THEN /\ input' = r.value
                  /\ pc' = "imread_overlay"
                  /\ UNCHANGED <<error, errorAt>>
             ELSE /\ error' = "cv2.error"
                  /\ errorAt' = "resize"
                  /\ pc' = "error"
                  /\ UNCHANGED input
  /\ UNCHANGED <<files, display, newHeight, overlay, window,
                 keysPressed, keysRead, testWidth>>

\* line 14: input = cv2.resize(input, (600, input.shape[0]))
Resize ==
  /\ pc = "resize"
  /\ trace' = Append(trace, "resize")
  /\ LET size == <<TargetWidth, input.shape[1]>>
         r == cv2_resize(input, size)
     IN /\ dsize' = size
        /\ IF r.ok
             THEN /\ input' = r.value
                  /\ pc' = "imread_overlay"
                  /\ UNCHANGED <<error, errorAt>>
             ELSE /\ error' = "cv2.error"
                  /\ errorAt' = "resize"
                  /\ pc' = "error"
                  /\ UNCHANGED input
  /\ UNCHANGED <<files, display, newHeight, overlay, window,
                 keysPressed, keysRead, testWidth>>

\* Mutant of ImreadOverlay: the overlay is loaded after the window is shown,
\* so the display statement runs before the overlay load.
ImreadOverlayLate ==
  /\ pc = "imread_overlay"
  /\ pc' = "imshow"
  /\ UNCHANGED <<files, display, input, newHeight, overlay, dsize, window,
                 keysPressed, keysRead, error, errorAt, trace, testWidth>>

\* line 17: overlay = cv2.imread('squirrel.jpg')
ImreadOverlay ==
  /\ pc = "imread_overlay"
  /\ overlay' = imread("squirrel.jpg")
  /\ pc' = "imshow"
  /\ trace' = Append(trace, "imread_overlay")
  /\ UNCHANGED <<files, display, input, newHeight, dsize, window,
                 keysPressed, keysRead, error, errorAt, testWidth>>

\* Mutant of Imshow: the overlay is shown instead of the resized base image.
ImshowOverlay ==
  /\ pc = "imshow"
  /\ trace' = Append(trace, "imshow")
  /\ IF display /\ overlay # None
       THEN /\ window' = [title |-> "Resized", image |-> overlay]
            /\ pc' = "waitKey"
            /\ UNCHANGED <<error, errorAt>>
       ELSE /\ error' = "cv2.error"
            /\ errorAt' = "imshow"
            /\ pc' = "error"
            /\ UNCHANGED window
  /\ UNCHANGED <<files, display, input, newHeight, overlay, dsize,
                 keysPressed, keysRead, testWidth>>

\* line 20: cv2.imshow("Resized", input)
\* Without a windowing surface (or with an empty image) cv2.error.
Imshow ==
  /\ pc = "imshow"
  /\ trace' = Append(trace, "imshow")
  /\ IF display /\ input # None
       THEN /\ window' = [title |-> "Resized", image |-> input]
            /\ pc' = "waitKey"
            /\ UNCHANGED <<error, errorAt>>
       ELSE /\ error' = "cv2.error"
            /\ errorAt' = "imshow"
            /\ pc' = "error"
            /\ UNCHANGED window
  /\ UNCHANGED <<files, display, input, newHeight, overlay, dsize,
                 keysPressed, keysRead, testWidth>>

\* line 21, entry: cv2.waitKey(0) starts to block.
WaitKeyEnter ==
  /\ pc = "waitKey"
  /\ ~Executed("waitKey")
  /\ trace' = Append(trace, "waitKey")
  /\ UNCHANGED <<files, display, pc, input, newHeight, overlay, dsize,
                 window, keysPressed, keysRead, error, errorAt, testWidth>>

\* The user presses a key while the window exists and the script runs.
KeyPress ==
  /\ window # NoWindow
  /\ pc \notin Terminated
  /\ keysPressed < MaxKeys
  /\ keysPressed' = keysPressed + 1
  /\ UNCHANGED <<files, display, pc, input, newHeight, overlay, dsize,
                 window, keysRead, error, errorAt, trace, testWidth>>

\* Mutant of WaitKeyReturn: waitKey with a positive delay, which returns on
\* timeout without any key event.
WaitKeyTimeout ==
  /\ pc = "waitKey"
  /\ Executed("waitKey")
  /\ pc' = "done"
  /\ UNCHANGED <<files, display, input, newHeight, overlay, dsize, window,
                 keysPressed, keysRead, error, errorAt, trace, testWidth>>

\* Mutant of WaitKeyReturn: the key event is consumed but waitKey keeps
\* waiting.
WaitKeySwallowsKey ==
  /\ pc = "waitKey"
  /\ Executed("waitKey")
  /\ keysRead < keysPressed
  /\ keysRead' = keysRead + 1
  /\ UNCHANGED <<files, display, pc, input, newHeight, overlay, dsize,
                 window, keysPressed, error, errorAt, trace, testWidth>>

\* line 21, return: delay 0 means no timeout; waitKey returns only with a
\* key event, and the script ends.
WaitKeyReturn ==
  /\ pc = "waitKey"
  /\ Executed("waitKey")
  /\ keysRead < keysPressed
  /\ keysRead' = keysRead + 1
  /\ pc' = "done"
  /\ UNCHANGED <<files, display, input, newHeight, overlay, dsize, window,
                 keysPressed, error, errorAt, trace, testWidth>>

Program ==
  \/ ImreadInput
  \/ NewHeight
  \/ Resize
  \/ ImreadOverlay
  \/ Imshow
  \/ WaitKeyEnter
  \/ WaitKeyReturn

Next ==
  \/ Program
  \/ KeyPress

Spec == Init /\ [][Next]_vars

\* The script with its statements scheduled fairly: Python runs the next
\* statement whenever there is one, and waitKey returns once a key event is
\* pending.  Key presses are the user's: no fairness is assumed for them.
FairSpec == Spec /\ WF_vars(Program)

\* ------------------------------------------------- the Resizer on its own
\* Lines 13-14 are the Resizer: (buffer, target width) -> buffer.  To see it
\* on widths the script never passes, it is applied to every buffer
\* imread can return and to widths around zero.
TestWidths == ((0 - MaxW)..MaxW) \cup {TargetWidth}

InitResizer ==
  /\ files \in [Paths -> {Missing} \cup (Heights \X Widths)]
  /\ display \in BOOLEAN
  /\ pc = "test_Resizer"
  /\ input = imread("example.jpg")
  /\ testWidth \in TestWidths
  /\ newHeight = <<0, 1>>
  /\ overlay = None
  /\ dsize = <<>>
  /\ window = NoWindow
  /\ keysPressed = 0
  /\ keysRead = 0
  /\ error = "none"
  /\ errorAt = "none"
  /\ trace = <<>>

\* Lines 13-14 with testWidth in place of the literal 600.
ResizerCall ==
  /\ pc = "test_Resizer"
  /\ IF input = None
       THEN /\ error' = "AttributeError"
            /\ errorAt' = "newHeight"
            /\ pc' = "test_error"
            /\ UNCHANGED <<input, newHeight, dsize>>
       ELSE LET size == <<testWidth, input.shape[1]>>
                r == cv2_resize(input, size)
            IN /\ newHeight' = <<input.shape[1] * testWidth, input.shape[2]>>
               /\ dsize' = size
               /\ IF r.ok
                    THEN /\ input' = r.value
                         /\ pc' = "test_done"
                         /\ UNCHANGED <<error, errorAt>>
                    ELSE /\ error' = "cv2.error"
                         /\ errorAt' = "resize"
                         /\ pc' = "test_error"
                         /\ UNCHANGED input
  /\ UNCHANGED <<files, display, overlay, window, keysPressed, keysRead,
                 trace, testWidth>>

InitAll == Init \/ InitResizer

NextAll ==
  \/ Next
  \/ ResizerCall

ResizerSpec == InitAll /\ [][NextAll]_vars

\* ---------------------------------------------------------------- claims

ResizeSucceeded == Executed("resize") /\ errorAt # "resize"

\* C1: once the resize statement has run on a decoded (H, W, 3) base image,
\* input -- and the image in the window, once shown -- has shape
\* (H, 600, 3): width 600, height unchanged, whatever newHeight is.
C1_ResizeKeepsHeight ==
  ResizeSucceeded =>
    /\ files["example.jpg"] # Missing
    /\ input.shape = <<files["example.jpg"][1], TargetWidth, 3>>
    /\ window # NoWindow =>
         window.image.shape = <<files["example.jpg"][1], TargetWidth, 3>>

\* The 400x800 scenario: shown as 400x600 although newHeight is 300.
C1_Witness ==
  /\ window # NoWindow
  /\ files["example.jpg"] = <<400, 800>>
  /\ window.image.shape = <<400, 600, 3>>
  /\ newHeight[1] = 300 * newHeight[2]

\* C2: a load statement whose file does not decode ends the run in an error
\* raised by that load statement; it never binds None and goes on.
C2_LoadFailsOnUndecodableFile ==
  /\ (Executed("imread_input") /\ files["example.jpg"] = Missing) =>
       (pc = "error" /\ errorAt = "imread_input")
  /\ (Executed("imread_overlay") /\ files["squirrel.jpg"] = Missing) =>
       (pc = "error" /\ errorAt = "imread_overlay")

\* C3: after a failed step no later statement runs; with squirrel.jpg
\* undecodable the window is never opened and the key wait never entered.
C3_FailureEndsRunAtOnce ==
  /\ files["squirrel.jpg"] = Missing =>
       (window = NoWindow /\ pc # "waitKey" /\ ~Executed("waitKey"))
  /\ error # "none" => (pc = "error" /\ errorAt = trace[Len(trace)])

\* C4: after its load the overlay is what imread returned for squirrel.jpg
\* and stays so; it is never resized, and the window shows the resized base
\* image, never the overlay.
C4_OverlayUnused ==
  /\ overlay = IF Executed("imread_overlay") THEN imread("squirrel.jpg")
               ELSE None
  /\ window # NoWindow =>
       /\ window.title = "Resized"
       /\ window.image = input
       /\ window.image.src = "example.jpg"
       /\ window.image.resized
       /\ window.image # overlay

\* A finished run whose overlay decoded to the very shape of the resized
\* base image.
C4_Witness ==
  /\ pc = "done"
  /\ overlay # None
  /\ overlay.shape = window.image.shape

\* C5: the script ends normally only after the window was shown, waitKey
\* was entered and a key event was delivered to the window and read.
C5_DoneOnlyAfterKey ==
  /\ keysPressed > 0 => window # NoWindow
  /\ keysRead <= keysPressed
  /\ pc = "done" =>
       /\ window # NoWindow
       /\ Executed("waitKey")
       /\ keysPressed >= 1
       /\ keysRead >= 1

C5_Witness == pc = "done" /\ keysPressed = 1 /\ keysRead = 1

C8_LinearSequence ==
  /\ Len(trace) <= Len(ProgramOrder)
  /\ \A i \in DOMAIN trace : trace[i] = ProgramOrder[i]
  /\ pc = "done" => trace = ProgramOrder
  /\ pc = "error" => (trace # <<>> /\ errorAt = trace[Len(trace)])
  /\ pc \notin Terminated =>
       IF Len(trace) < Len(ProgramOrder)
         THEN pc = ProgramOrder[Len(trace) + 1]
         ELSE pc = "waitKey"

C8_Witness == pc = "done" /\ trace = ProgramOrder

\* An exception raised by the Resizer (lines 13-14).
InvalidDimensionError == error # "none" /\ errorAt \in {"newHeight", "resize"}

InTest == pc \in {"test_Resizer", "test_done", "test_error"}

GoodEnvironment ==
  /\ files["example.jpg"] # Missing
  /\ files["squirrel.jpg"] # Missing
  /\ display

\* C9: with both files decodable and a display, if key presses are fair the
\* script eventually ends normally; and whatever the environment, a run
\* either terminates or stays for ever in the key wait with the window
\* shown -- it can stall nowhere else.
C9_TerminatesOnKey ==
  /\ WF_vars(KeyPress) => (GoodEnvironment ~> (pc = "done"))
  /\ <>(pc \in Terminated) \/ <>[](pc = "waitKey" /\ window # NoWindow)

\* The key wait with no key pressed yet: the one place the script can stay.
C9_Witness ==
  /\ pc = "waitKey"
  /\ Executed("waitKey")
  /\ keysPressed = 0
  /\ GoodEnvironment

====
